---- MODULE Spec2Model ----
(***************************************************************************)
(* Resumable batch import of sanity-bulk-import.                           *)
(*                                                                         *)
(* The model follows src/src/utils/recoverySystem.js: the RecoverySystem   *)
(* (checkpoint store and retry executor, lines 5-142) and                  *)
(* ImportManager.import (lines 232-336).  A record is identified with its  *)
(* 0-based index in the original record sequence, so the original          *)
(* sequence of N records is <<0, 1, ..., N-1>>.                            *)
(*                                                                         *)
(* The clock is kept up to order.  Two saves of import() are separated by  *)
(* the commit of a batch, a round trip to the document store, so they read *)
(* different milliseconds: every save of a run advances the clock by one.  *)
(* Between two runs a whole retention window may pass (SpecAged).          *)
(***************************************************************************)
EXTENDS Integers, Sequences, FiniteSets, TLC

VARIABLES
    data,               \* what transformer.transform(inputPath, type) returns
    batchSize,          \* config.get().import.batchSize
    checkpointInterval, \* ImportManager.checkpointInterval
    files,              \* the files of checkpointDir
    clock,              \* Date.now()
    pc,                 \* where the current call of import() stands
    type,               \* import(): type
    resume,             \* import(): options.resume
    continueOnError,    \* import(): options.continueOnError
    transformedData,    \* import(): transformedData
    startIndex,         \* import(): startIndex
    i,                  \* import(): the loop index i
    attempt,            \* retryOperation(): attempt
    results,            \* import(): results
    loaded,             \* import(): checkpoint (None when none was loaded)
    arg,                \* arguments of a direct call of saveCheckpoint (None in import runs)
    retry,              \* a direct call of retryOperation (None in import runs)
    runNo,              \* history: number of calls of import() so far
    waits,              \* history: number of retention windows that passed
    faults,             \* history: number of failures injected so far
    event,              \* history: what the last step did
    runFaults,          \* history: the kinds of failure this run has met
    saved,              \* history: the checkpoints written by this run, in order
    validatedRun,       \* history: records handed to importer.validate by this run
    stagedRun,          \* history: records staged by transaction.create by this run
    committedRun,       \* history: records committed by this run
    committedPrev,      \* history: records committed by the run before
    prevType,           \* history: type of the run before
    prevEnd,            \* history: how the run before ended
    tally,              \* history: what was done for the batch in progress
    handled,            \* history: per type, the records committed or recorded as failed so far
    store               \* the checkpoint store used on its own: the write in progress, and history

vars == <<data, batchSize, checkpointInterval, files, clock, pc, type, resume,
          continueOnError, transformedData, startIndex, i, attempt, results,
          loaded, arg, runNo, waits, faults, event, runFaults, saved,
          validatedRun, stagedRun, committedRun, committedPrev, prevType, prevEnd,
          retry, tally, handled, store>>

----------------------------------------------------------------------------
(* Bounds of the model *)

MaxN == 5          \* longest original record sequence
MaxBatch == 2      \* largest batchSize
MaxInterval == 2   \* largest checkpointInterval
MaxRuns == 2       \* calls of import() in one behaviour
MaxWaits == 1      \* retention windows that may pass in one behaviour
MaxFaults == 1     \* failures (validation, batch commit, file system, crash) in one behaviour
LongN == 120       \* length of the long record sequence
MaxLen == 3        \* longest record sequence handed to saveCheckpoint on its own
MaxRecord == 1     \* largest record of such a sequence
MaxAttempts == 3   \* largest maxRetries of a call of retryOperation on its own
TickMs == 500      \* milliseconds by which the clock advances during a sleep
MaxSaves == 2      \* calls of saveCheckpoint on the checkpoint store used on its own
MaxCalls == 2      \* calls of loadLatestCheckpoint and cleanOldCheckpoints on that store
MaxTicks == 1      \* advances of the clock between the operations on that store
TimestampDigits == 13   \* digits of a clock reading in a file name

(* Program constants *)

defaultCheckpointInterval == 50   \* ImportManager.checkpointInterval
maxRetries == 3               \* RecoverySystem.maxRetries
retryDelay == 1000            \* RecoverySystem.retryDelay
DayMs == 86400000             \* parseMaxAge: units.d
DefaultMaxAgeDays == 7        \* cleanOldCheckpoints: maxAge = '7d'

(* The long record sequence is imported in batches as long as the          *)
(* checkpoint interval of the constructor.                                 *)
LongBatch == defaultCheckpointInterval

supportedTypes == {"category", "listing"}

None == [none |-> TRUE]

Min(a, b) == IF a < b THEN a ELSE b
Max(a, b) == IF a > b THEN a ELSE b
Range(s) == {s[k] : k \in 1..Len(s)}

----------------------------------------------------------------------------
(* Array.prototype.slice(start, end) of JavaScript on 0-based indices: a   *)
(* negative index counts from the end, and both ends are clamped to the    *)
(* array.                                                                  *)
RelIndex(len, k) == IF k < 0 THEN Max(len + k, 0) ELSE Min(k, len)

Slice(s, start, end) ==
    SubSeq(s, RelIndex(Len(s), start) + 1, RelIndex(Len(s), end))

SliceFrom(s, start) == Slice(s, start, Len(s))

(* generateCheckpointFilename: checkpoint_<type>_<timestamp>.json; the     *)
(* name is determined by, and determines, the pair.                        *)
generateCheckpointFilename(t, timestamp) == <<t, timestamp>>

(* A variant of Checkpoint that counts the records that remain. *)
CheckpointCountsRemaining(t, d, progress, timestamp) ==
    [timestamp      |-> timestamp,
     type           |-> t,
     progress       |-> progress,
     remainingData  |-> SliceFrom(d, progress),
     processedCount |-> Len(SliceFrom(d, progress)),
     totalCount     |-> Len(d)]

(* The checkpoint object built by saveCheckpoint. *)
Checkpoint(t, d, progress, timestamp) ==
    [timestamp      |-> timestamp,
     type           |-> t,
     progress       |-> progress,
     remainingData  |-> SliceFrom(d, progress),
     processedCount |-> progress,
     totalCount     |-> Len(d)]

(* fs.writeFile(filename, ...): creates the file or replaces its content. *)
WriteFile(fs, name, content, now) ==
    {f \in fs : f.name # name} \cup {[name |-> name, content |-> content, mtime |-> now]}

(* The decimal digits of n, w of them, with leading zeros; a clock reading *)
(* has at most ten digits, the places to the left of them are zeros.       *)
Digits(n, w) ==
    [k \in 1..w |-> IF w - k > 9 THEN 0 ELSE (n \div 10^(w - k)) % 10]

(* new Date().toISOString().replace(/[:.]/g, '-') (line 25): every field   *)
(* of the date has a fixed number of digits, so the string of a clock      *)
(* reading is as good as its digits at a fixed width.                      *)
TimestampString(timestamp) == Digits(timestamp, TimestampDigits)

(* The order of Array.prototype.sort on strings. *)
LexLess(a, b) ==
    LET differ == {k \in 1..Min(Len(a), Len(b)) : a[k] # b[k]}
    IN IF differ = {}
       THEN Len(a) < Len(b)
       ELSE LET first == CHOOSE k \in differ : \A j \in differ : k <= j
            IN a[first] < b[first]

(* A variant of OldCheckpoints that takes the oldest file of the type. *)
OldCheckpointsOldest(fs, t, now, maxAgeMs) ==
    {f \in fs : f.name[1] = t /\ \A g \in fs : g.name[1] = t => f.mtime <= g.mtime}

(* A variant of OldCheckpoints that takes the files as old as maxAge too. *)
OldCheckpointsInclusive(fs, t, now, maxAgeMs) ==
    {f \in fs : f.name[1] = t /\ now - f.mtime >= maxAgeMs}

(* A variant of CheckpointFiles that takes the files of every type. *)
CheckpointFilesOfAnyType(fs, t) == fs

(* loadLatestCheckpoint: the files whose name starts with checkpoint_<type>_, *)
(* sorted, reversed, the first one; null when there is none.               *)
CheckpointFiles(fs, t) == {f \in fs : f.name[1] = t}

(* The order of the file names: checkpoint_category_... sorts before       *)
(* checkpoint_listing_..., and two names of one type as their timestamps.  *)
FileNameLess(a, b) ==
    LET sa == TimestampString(a[2])
        sb == TimestampString(b[2])
    IN IF a[1] = b[1] THEN LexLess(sa, sb) ELSE a[1] = "category"

(* A variant of LatestFile without the reverse. *)
LatestFileUnreversed(fs, t) ==
    CHOOSE f \in CheckpointFiles(fs, t) :
        \A g \in CheckpointFiles(fs, t) : g.name = f.name \/ FileNameLess(f.name, g.name)

LatestFile(fs, t) ==
    LET sorted == CheckpointFiles(fs, t)
    IN CHOOSE f \in sorted :
           \A g \in sorted : g.name = f.name \/ FileNameLess(g.name, f.name)

LatestCheckpoint(fs, t) ==
    IF CheckpointFiles(fs, t) = {} THEN None ELSE LatestFile(fs, t).content

(* parseMaxAge('<n>d') *)
parseMaxAgeDays(n) == n * DayMs

(* parseMaxAge(maxAge) (lines 98-111), maxAge given as the digits and the  *)
(* rest of the string: the milliseconds of '<n>d' and '<n>w', and an error *)
(* thrown for every other string.                                          *)
parseMaxAge(maxAge) ==
    IF maxAge.unit = "d" THEN [ok |-> TRUE, ms |-> maxAge.value * DayMs]
    ELSE IF maxAge.unit = "w" THEN [ok |-> TRUE, ms |-> maxAge.value * 7 * DayMs]
    ELSE [ok |-> FALSE, ms |-> 0]

(* cleanOldCheckpoints: the files of the type that the loop unlinks. *)
OldCheckpoints(fs, t, now, maxAgeMs) ==
    {f \in CheckpointFiles(fs, t) : now - f.mtime > maxAgeMs}

----------------------------------------------------------------------------
(* A variant of Batch whose slices overlap by one record. *)
BatchOverlapping(d, k, size) == Slice(d, k, k + size + 1)

(* A variant of ResumeState that loads the checkpoint and does not use it. *)
ResumeStateIgnored(cp, full) == [transformedData |-> full, startIndex |-> 0]

(* import(): the state it starts from (lines 237-255). *)
ResumeState(cp, full) ==
    IF cp # None
    THEN [transformedData |-> cp.remainingData, startIndex |-> cp.processedCount]
    ELSE [transformedData |-> full, startIndex |-> 0]

(* import(): batch = transformedData.slice(i, i + batchSize) *)
Batch(d, k, size) == Slice(d, k, k + size)

(* import(): i / importConfig.batchSize, a JavaScript number: whole part   *)
(* and remainder (the number is an integer iff rem = 0); with a batch size *)
(* of 0 it is NaN for i = 0 and Infinity for i > 0.                        *)
BatchIndex(k, size) ==
    IF size = 0 THEN [nan |-> k = 0, infinity |-> k > 0]
    ELSE [whole |-> k \div size, rem |-> k % size]

(* import(): the condition of "Save checkpoint at intervals" (line 289). *)
CheckpointDue(k, interval) == k > 0 /\ k % interval = 0

EmptyResults == [success |-> 0, failed |-> 0, errors |-> <<>>, checkpoints |-> <<>>]

Running == pc \in {"validate", "commit", "save", "clean"}
Ended == pc \in {"idle", "done", "aborted", "failed", "died"}

ThisBatch == Batch(transformedData, i, batchSize)

(* A variant of Transaction that goes on with the transaction of the      *)
(* attempt before.                                                         *)
TransactionReused(earlier, docs) == earlier \o docs

(* The documents staged in the transaction of a commit attempt: the        *)
(* closure handed to retryOperation creates the transaction itself (line   *)
(* 279), so nothing staged by an earlier attempt is in it.                 *)
Transaction(earlier, docs) == docs
(* What is known of the batch that starts at index start: how often it was *)
(* validated, whether a record of it failed validation, the validated      *)
(* batch, the commit attempts made, the commits that succeeded and the     *)
(* documents staged in the transaction of the last attempt; and the turns  *)
(* of the loop that the run has made so far.                               *)
NoTally ==
    [start |-> -1, validations |-> 0, invalid |-> FALSE, validated |-> <<>>,
     attempts |-> 0, commits |-> 0, staged |-> <<>>, batches |-> 0]

(* The records of a batch whose validation may throw: none, the first,     *)
(* the last, or all of them.                                               *)
BadChoices(batch) ==
    IF batch = <<>> THEN {{}} ELSE {{}, {batch[1]}, {batch[Len(batch)]}, Range(batch)}

Without(batch, bad) == SelectSeq(batch, LAMBDA r : r \notin bad)

(* A variant of PromiseAll that goes on with the records that passed. *)
PromiseAllSettled(batch, bad) == [ok |-> TRUE, docs |-> Without(batch, bad)]

(* Promise.all over the validations of a batch (lines 272-274): the        *)
(* validated batch, or a rejection as soon as one validation throws.       *)
PromiseAll(batch, bad) ==
    IF bad = {} THEN [ok |-> TRUE, docs |-> batch] ELSE [ok |-> FALSE, docs |-> <<>>]

Record(s) == handled' = [handled EXCEPT ![type] = @ \cup s]

----------------------------------------------------------------------------
InitRun ==
    /\ files = {}
    /\ clock = 0
    /\ pc = "idle"
    /\ type = "category"
    /\ resume = FALSE
    /\ continueOnError = FALSE
    /\ transformedData = <<>>
    /\ startIndex = 0
    /\ i = 0
    /\ attempt = 0
    /\ results = EmptyResults
    /\ loaded = None
    /\ runNo = 0
    /\ waits = 0
    /\ faults = 0
    /\ event = "init"
    /\ saved = <<>>
    /\ validatedRun = {}
    /\ stagedRun = {}
    /\ committedRun = {}
    /\ committedPrev = {}
    /\ prevType = "category"
    /\ prevEnd = "idle"
    /\ runFaults = {}
    /\ tally = NoTally
    /\ handled = [t \in supportedTypes |-> {}]

(* Short sequences with every small batch size and checkpoint interval,    *)
(* and one long sequence with the checkpoint interval of the constructor.  *)
Init ==
    /\ \/ /\ \E n \in 0..MaxN : data = [k \in 1..n |-> k - 1]
          /\ batchSize \in 1..MaxBatch
          /\ checkpointInterval \in 1..MaxInterval
       \/ /\ data = [k \in 1..LongN |-> k - 1]
          /\ batchSize = LongBatch
          /\ checkpointInterval = defaultCheckpointInterval
    /\ arg = None
    /\ retry = None
    /\ store = None
    /\ InitRun

(* A variant of RetryLoops that stops one attempt early. *)
RetryLoopsShort(a, max) == a < max

(* retryOperation: the condition of its loop (line 116), and the condition *)
(* under which it sleeps after a failed attempt (line 128).                *)
RetryLoops(a, max) == a <= max

RetrySleeps(a, max) == a < max

(* A variant of RetryWait that waits the same time after every attempt. *)
RetryWaitFlat(delay, a) == delay

(* retryOperation: the delay after failed attempt a (line 130). *)
RetryWait(delay, a) == delay * a

(* A variant of ExhaustedError that keeps the first error, not the last. *)
ExhaustedErrorFirst(max, errs) ==
    [attempts |-> max, message |-> IF errs = <<>> THEN "undefined" ELSE errs[1]]

(* retryOperation: the error thrown past the loop (lines 136-138); errs are *)
(* the messages of the errors caught, in order. With none caught,          *)
(* lastError is undefined and reading its message is a TypeError.          *)
ExhaustedError(max, errs) ==
    IF errs = <<>> THEN [typeError |-> TRUE]
    ELSE [attempts |-> max, message |-> errs[Len(errs)]]

(* The loop head of import() (line 267): the next batch, or past the loop. *)
LoopHead(k, d) == IF k < Len(d) THEN "validate" ELSE "clean"

(* A failure of the environment: counted, and at most MaxFaults of them.   *)
(* The failed commit attempts of one batch count as one failure.           *)
Fault(kind) ==
    /\ faults < MaxFaults
    /\ faults' = faults + 1
    /\ runFaults' = runFaults \cup {kind}

NoFault == UNCHANGED <<faults, runFaults>>

(* The checkpoint store and import() treat the two types alike, so the     *)
(* first run of a behaviour is taken to import categories.                 *)
RunTypes == IF runNo = 0 THEN {"category"} ELSE supportedTypes

(* A variant of CheckpointToResume that reads the checkpoint whatever the  *)
(* options say.                                                            *)
CheckpointAlwaysLoaded(r, fs, t) == LatestCheckpoint(fs, t)

(* import(): the checkpoint read when options.resume is set (lines         *)
(* 240-241), none otherwise.                                               *)
CheckpointToResume(r, fs, t) == IF r THEN LatestCheckpoint(fs, t) ELSE None

(* What can throw before the loop: initialize (line 234),                  *)
(* loadLatestCheckpoint when options.resume is set (line 241), transform   *)
(* when there is no checkpoint (line 254).                                 *)
StartErrors(r, cp) ==
    {"initialize"} \cup (IF r THEN {"load"} ELSE {})
                   \cup (IF cp = None THEN {"transform"} ELSE {})

(* A variant of AfterStartError that takes a checkpoint that cannot be     *)
(* loaded for no checkpoint.                                               *)
AfterStartErrorFallsBack(kind, full) ==
    IF kind = "load"
    THEN [pc |-> LoopHead(0, full), transformedData |-> full]
    ELSE [pc |-> "failed", transformedData |-> <<>>]

(* import(): an error thrown before the loop goes to the catch block of    *)
(* lines 328-335, which logs it and throws it again.                       *)
AfterStartError(kind, full) == [pc |-> "failed", transformedData |-> <<>>]

(* import(inputPath, type, options) up to the loop (lines 232-266). *)
StartImport ==
    /\ Ended
    /\ runNo < MaxRuns
    /\ \E t \in RunTypes, r \in BOOLEAN :
       LET cp == CheckpointToResume(r, files, t)
           st == ResumeState(cp, data)
       IN \E c \in BOOLEAN :
         /\ type' = t
         /\ resume' = r
         /\ continueOnError' = c
         /\ \/ /\ loaded' = cp
               /\ transformedData' = st.transformedData
               /\ startIndex' = st.startIndex
               /\ i' = st.startIndex
               /\ pc' = LoopHead(st.startIndex, st.transformedData)
               /\ event' = "started"
               /\ faults' = faults
               /\ runFaults' = {}
            \/ \E kind \in StartErrors(r, cp) :
                 /\ faults < MaxFaults
                 /\ faults' = faults + 1
                 /\ runFaults' = {kind}
                 /\ loaded' = None
                 /\ transformedData' = AfterStartError(kind, data).transformedData
                 /\ startIndex' = 0
                 /\ i' = 0
                 /\ pc' = AfterStartError(kind, data).pc
                 /\ event' = "startFailed"
    /\ results' = EmptyResults
    /\ attempt' = 0
    /\ runNo' = runNo + 1
    /\ saved' = <<>>
    /\ validatedRun' = {}
    /\ stagedRun' = {}
    /\ committedRun' = {}
    /\ committedPrev' = committedRun
    /\ prevType' = type
    /\ prevEnd' = pc
    /\ tally' = NoTally
    /\ UNCHANGED <<store, retry, data, batchSize, checkpointInterval, files, clock, arg, waits,
                   handled>>

(* results.failed and results.errors in the catch block (lines 299-304). *)
CountFailed(kind) ==
    /\ results' = [results EXCEPT
                     !.failed = @ + Len(ThisBatch),
                     !.errors = Append(@, [batch |-> BatchIndex(i, batchSize),
                                           error |-> kind,
                                           items |-> ThisBatch])]
    /\ Record(Range(ThisBatch))

(* A variant of BatchFailed that goes on with the next batch whatever the  *)
(* options say.                                                            *)
BatchFailedContinues(kind) ==
    /\ CountFailed(kind)
    /\ pc' = LoopHead(i + batchSize, transformedData)
    /\ i' = i + batchSize

(* A variant of BatchFailed that ends the run whatever the options say. *)
BatchFailedAborts(kind) ==
    /\ CountFailed(kind)
    /\ pc' = "aborted"
    /\ i' = i

(* The catch block of the loop body (lines 298-314), then the loop's step. *)
BatchFailed(kind) ==
    /\ CountFailed(kind)
    /\ IF ~continueOnError
       THEN /\ pc' = "aborted"
            /\ i' = i
       ELSE /\ pc' = LoopHead(i + batchSize, transformedData)
            /\ i' = i + batchSize

(* Promise.all(batch.map(item => importer.validate(item))) (lines 272-274) *)
Validate ==
    /\ pc = "validate"
    /\ validatedRun' = validatedRun \cup Range(ThisBatch)
    /\ \E bad \in BadChoices(ThisBatch) :
         LET validatedBatch == PromiseAll(ThisBatch, bad)
             before == IF tally.start = i THEN tally
                       ELSE [NoTally EXCEPT !.start = i, !.batches = tally.batches]
         IN /\ tally' = [before EXCEPT !.validations = @ + 1,
                                       !.batches = @ + 1,
                                       !.invalid = bad # {},
                                       !.validated = validatedBatch.docs]
            /\ IF bad = {} THEN NoFault ELSE Fault("validation")
            /\ IF validatedBatch.ok
               THEN /\ pc' = "commit"
                    /\ attempt' = 1
                    /\ event' = "validated"
                    /\ UNCHANGED <<results, i, handled>>
               ELSE /\ event' = "validationFailed"
                    /\ BatchFailed("validation")
                    /\ UNCHANGED attempt
    /\ UNCHANGED <<store, retry, data, batchSize, checkpointInterval, files, clock, type, resume,
                   continueOnError, transformedData, startIndex, loaded, arg, runNo,
                   waits, saved, stagedRun, committedRun, committedPrev, prevType,
                   prevEnd>>

(* One attempt of retryOperation (lines 116-134) on the commit closure     *)
(* (lines 278-282): a new transaction, every document of the validated     *)
(* batch staged, commit; on success results.success += batch.length (line  *)
(* 286) and the test of the checkpoint interval (line 289).                *)
CommitAttempt ==
    /\ pc = "commit"
    /\ stagedRun' = stagedRun \cup Range(tally.validated)
    /\ \/ /\ committedRun' = committedRun \cup Range(tally.validated)
          /\ Record(Range(tally.validated))
          /\ tally' = [tally EXCEPT !.attempts = @ + 1,
                                    !.commits = @ + 1,
                                    !.staged = Transaction(@, tally.validated)]
          /\ results' = [results EXCEPT !.success = @ + Len(ThisBatch)]
          /\ event' = "committed"
          /\ IF CheckpointDue(i, checkpointInterval)
             THEN pc' = "save" /\ i' = i
             ELSE pc' = LoopHead(i + batchSize, transformedData) /\ i' = i + batchSize
          /\ NoFault
          /\ UNCHANGED attempt
       \/ /\ IF attempt = 1 THEN Fault("commit") ELSE NoFault
          /\ UNCHANGED committedRun
          /\ tally' = [tally EXCEPT !.attempts = @ + 1,
                                    !.staged = Transaction(@, tally.validated)]
          /\ IF RetryLoops(attempt + 1, maxRetries)
             THEN /\ attempt' = attempt + 1
                  /\ event' = "commitRetried"
                  /\ UNCHANGED <<results, pc, i, handled>>
             ELSE /\ event' = "retryExhausted"
                  /\ BatchFailed("retryExhausted")
                  /\ UNCHANGED attempt
    /\ UNCHANGED <<store, retry, data, batchSize, checkpointInterval, files, clock, type, resume,
                   continueOnError, transformedData, startIndex, loaded, arg, runNo,
                   waits, saved, validatedRun, committedPrev, prevType, prevEnd>>

(* recoverySystem.saveCheckpoint(type, transformedData, i + batch.length)  *)
(* and results.checkpoints.push (lines 290-295, 23-53); saveCheckpoint     *)
(* rethrows what fs.writeFile throws (line 51), into the catch block of    *)
(* the loop body.                                                          *)
SaveCheckpoint ==
    /\ pc = "save"
    /\ \/ LET name == generateCheckpointFilename(type, clock)
              cp == Checkpoint(type, transformedData, i + Len(ThisBatch), clock)
          IN /\ files' = WriteFile(files, name, cp, clock)
             /\ clock' = clock + 1
             /\ results' = [results EXCEPT !.checkpoints = Append(@, name)]
             /\ saved' = Append(saved, cp)
             /\ event' = "saved"
             /\ pc' = LoopHead(i + batchSize, transformedData)
             /\ i' = i + batchSize
             /\ NoFault
             /\ UNCHANGED handled
       \/ /\ Fault("save")
          /\ event' = "saveFailed"
          /\ BatchFailed("checkpoint")
          /\ UNCHANGED <<files, clock, saved>>
    /\ UNCHANGED <<store, retry, data, batchSize, checkpointInterval, type, resume, continueOnError,
                   transformedData, startIndex, attempt, loaded, arg, runNo, waits,
                   validatedRun, stagedRun, committedRun, committedPrev, prevType,
                   prevEnd, tally>>

(* A variant of AfterClean in which an error of cleanOldCheckpoints ends   *)
(* import() as any other error does.                                       *)
AfterCleanThrows(error) == IF error THEN "failed" ELSE "done"

(* cleanOldCheckpoints catches what its body throws and only logs it       *)
(* (lines 93-95), so import() goes on to return results (line 327).        *)
AfterClean(error) == "done"

(* recoverySystem.cleanOldCheckpoints(type) and return results (lines      *)
(* 324-327, 76-96): every error is caught, so any part of the old files    *)
(* may be left behind.                                                     *)
CleanOldCheckpoints ==
    /\ pc = "clean"
    /\ LET old == OldCheckpoints(files, type, clock, parseMaxAgeDays(DefaultMaxAgeDays))
       IN \/ /\ files' = files \ old
             /\ event' = "cleaned"
             /\ pc' = AfterClean(FALSE)
             /\ NoFault
          \/ /\ Fault("clean")
             /\ \E gone \in SUBSET old : files' = files \ gone
             /\ event' = "cleanFailed"
             /\ pc' = AfterClean(TRUE)
    /\ UNCHANGED <<store, retry, data, batchSize, checkpointInterval, clock, type, resume,
                   continueOnError, transformedData, startIndex, i, attempt, results,
                   loaded, arg, runNo, waits, saved, validatedRun, stagedRun,
                   committedRun, committedPrev, prevType, prevEnd, tally, handled>>

(* The process dies in the middle of a run. *)
Crash ==
    /\ Running
    /\ Fault("crash")
    /\ pc' = "died"
    /\ event' = "died"
    /\ UNCHANGED <<store, retry, data, batchSize, checkpointInterval, files, clock, type, resume,
                   continueOnError, transformedData, startIndex, i, attempt, results,
                   loaded, arg, runNo, waits, saved, validatedRun, stagedRun,
                   committedRun, committedPrev, prevType, prevEnd, tally, handled>>

(* A retention window passes between two runs. *)
Wait ==
    /\ Ended
    /\ runNo > 0
    /\ runNo < MaxRuns
    /\ waits < MaxWaits
    /\ waits' = waits + 1
    /\ clock' = clock + parseMaxAgeDays(DefaultMaxAgeDays)
    /\ UNCHANGED <<store, retry, data, batchSize, checkpointInterval, files, pc, type, resume,
                   continueOnError, transformedData, startIndex, i, attempt, results,
                   loaded, arg, runNo, faults, event, runFaults, saved, validatedRun,
                   stagedRun, committedRun, committedPrev, prevType, prevEnd, tally,
                   handled>>

Next ==
    \/ StartImport
    \/ Validate
    \/ CommitAttempt
    \/ SaveCheckpoint
    \/ CleanOldCheckpoints
    \/ Crash

Spec == Init /\ [][Next]_vars

(* import() with any batch size that Config.validate lets pass (logger.js, *)
(* lines 175-186: only an undefined import.batchSize is refused), 0 among  *)
(* them.  A run is followed for one turn of the loop more than it has      *)
(* records.                                                                *)
InitConfig ==
    /\ \E n \in 0..MaxN : data = [k \in 1..n |-> k - 1]
    /\ batchSize \in 0..MaxBatch
    /\ checkpointInterval \in 1..MaxInterval
    /\ arg = None
    /\ retry = None
    /\ store = None
    /\ InitRun

NextConfig ==
    \/ StartImport
    \/ Validate /\ tally'.batches <= Len(transformedData) + 1
    \/ CommitAttempt
    \/ SaveCheckpoint
    \/ CleanOldCheckpoints
    \/ Crash

SpecConfig == InitConfig /\ [][NextConfig]_vars

(* The same, with retention windows passing between the runs. *)
NextAged ==
    \/ Next
    \/ Wait

SpecAged == Init /\ [][NextAged]_vars

----------------------------------------------------------------------------
(* saveCheckpoint(type, data, progress) called on its own, with any record *)
(* sequence and any count as progress.                                     *)

InitSave ==
    /\ data \in UNION {[1..n -> 0..MaxRecord] : n \in 0..MaxLen}
    /\ batchSize = 1
    /\ checkpointInterval = 1
    /\ arg \in [type : supportedTypes, progress : 0..(MaxLen + 1)]
    /\ retry = None
    /\ store = None
    /\ InitRun

SaveCall ==
    /\ pc = "idle"
    /\ arg # None
    /\ \/ LET name == generateCheckpointFilename(arg.type, clock)
              cp == Checkpoint(arg.type, data, arg.progress, clock)
          IN /\ files' = WriteFile(files, name, cp, clock)
             /\ clock' = clock + 1
             /\ saved' = Append(saved, cp)
             /\ event' = "saved"
             /\ pc' = "returned"
       \/ /\ event' = "saveFailed"
          /\ pc' = "threw"
          /\ UNCHANGED <<files, clock, saved>>
    /\ UNCHANGED <<store, retry, data, batchSize, checkpointInterval, type, resume, continueOnError,
                   transformedData, startIndex, i, attempt, results, loaded, arg, runNo,
                   waits, faults, runFaults, validatedRun, stagedRun, committedRun,
                   committedPrev, prevType, prevEnd, tally, handled>>

NextSave == SaveCall

SpecSave == InitSave /\ [][NextSave]_vars

----------------------------------------------------------------------------
(* retryOperation(operation, context) called on its own (lines 113-139),   *)
(* with an operation that fails a given number of times and then succeeds, *)
(* or fails always.  The error of the n-th invocation has message n.       *)

InitRetry ==
    /\ data = <<>>
    /\ batchSize = 1
    /\ checkpointInterval = 1
    /\ arg = None
    /\ \E m \in 1..MaxAttempts, d \in {0, retryDelay}, k \in 0..MaxAttempts, a \in BOOLEAN :
         retry = [max |-> m, delay |-> d, fails |-> k, always |-> a, calls |-> 0,
                  errors |-> <<>>, sleeps |-> <<>>, wake |-> 0, outcome |-> None]
    /\ store = None
    /\ InitRun

RetryFrame ==
    UNCHANGED <<store, data, batchSize, checkpointInterval, files, type, resume, continueOnError,
                transformedData, startIndex, i, results, loaded, arg, runNo, waits,
                faults, runFaults, saved, validatedRun, stagedRun, committedRun,
                committedPrev, prevType, prevEnd, tally, handled>>

(* The test of the loop with attempt a, and the throw past the loop. *)
RetryLoop(a, r) ==
    /\ attempt' = a
    /\ IF RetryLoops(a, r.max)
       THEN /\ pc' = "attempting"
            /\ retry' = r
       ELSE /\ pc' = "threw"
            /\ retry' = [r EXCEPT !.outcome = ExhaustedError(r.max, r.errors)]

(* let attempt = 1 and the first test of the loop (line 116). *)
RetryStart ==
    /\ pc = "idle"
    /\ retry # None
    /\ RetryLoop(1, retry)
    /\ event' = "retryStarted"
    /\ UNCHANGED clock
    /\ RetryFrame

(* return await operation() and the catch block (lines 118-133). *)
RetryAttempt ==
    /\ pc = "attempting"
    /\ LET n == retry.calls + 1
           called == [retry EXCEPT !.calls = n]
       IN IF ~retry.always /\ n > retry.fails
          THEN /\ retry' = [called EXCEPT !.outcome = [value |-> "value"]]
               /\ pc' = "returned"
               /\ event' = "operationReturned"
               /\ UNCHANGED attempt
          ELSE LET failed == [called EXCEPT !.errors = Append(@, n)]
               IN /\ event' = "operationFailed"
                  /\ IF RetrySleeps(attempt, retry.max)
                     THEN /\ pc' = "sleeping"
                          /\ retry' = [failed EXCEPT
                               !.wake = clock + RetryWait(retry.delay, attempt),
                               !.sleeps = Append(@, [after |-> attempt,
                                                     delay |-> RetryWait(retry.delay, attempt),
                                                     from |-> clock,
                                                     until |-> -1])]
                          /\ UNCHANGED attempt
                     ELSE RetryLoop(attempt + 1, failed)
    /\ UNCHANGED clock
    /\ RetryFrame

(* The clock advances while retryOperation sleeps. *)
RetryTick ==
    /\ pc = "sleeping"
    /\ clock < retry.wake
    /\ clock' = clock + TickMs
    /\ UNCHANGED <<pc, attempt, retry, event>>
    /\ RetryFrame

(* setTimeout(resolve, delay) fires, not before the delay has passed: the  *)
(* sleep ends, attempt++ and the test of the loop.                         *)
RetryWake ==
    /\ pc = "sleeping"
    /\ clock >= retry.wake
    /\ RetryLoop(attempt + 1,
                 [retry EXCEPT !.sleeps[Len(retry.sleeps)].until = clock])
    /\ event' = "woke"
    /\ UNCHANGED clock
    /\ RetryFrame

NextRetry ==
    \/ RetryStart
    \/ RetryAttempt
    \/ RetryTick
    \/ RetryWake

SpecRetry == InitRetry /\ [][NextRetry]_vars

----------------------------------------------------------------------------
(* The checkpoint store used on its own: saveCheckpoint,                   *)
(* loadLatestCheckpoint and cleanOldCheckpoints called for either type in  *)
(* any order, by callers that run concurrently, while the clock stands     *)
(* still or advances.                                                      *)

(* The content of a file that fs.writeFile has created or truncated and    *)
(* not yet written in full.                                                *)
Partial == [partial |-> TRUE]

(* The write in progress, the content the last load read, the last         *)
(* pruning, the last checkpoint saved of each type, and the calls, saves   *)
(* and clock advances so far.                                              *)
NoStore ==
    [writing |-> None, read |-> None, pruned |-> None,
     latest |-> [t \in supportedTypes |-> None], calls |-> 0, saves |-> 0, ticks |-> 0]

(* What is kept of a call of cleanOldCheckpoints: its arguments, the clock  *)
(* reading, whether it met no error, the files it unlinked, whether its    *)
(* maxAge was malformed, whether it threw to its caller, and whether it    *)
(* repeats the call before, with whether that call met no error and the    *)
(* files it unlinked.                                                      *)
Pruning(before, t, days, now, ok, deleted) ==
    LET repeats == /\ before # None
                   /\ before.type = t
                   /\ before.days = days
                   /\ before.at = now
    IN [type |-> t, days |-> days, at |-> now, ok |-> ok, deleted |-> deleted,
        malformed |-> FALSE, threw |-> FALSE,
        repeats |-> repeats,
        earlierOk |-> repeats /\ before.ok,
        earlier |-> IF repeats THEN before.deleted ELSE {}]

InitStore ==
    /\ data = [k \in 1..MaxLen |-> k - 1]
    /\ batchSize = 1
    /\ checkpointInterval = 1
    /\ arg = None
    /\ retry = None
    /\ store = NoStore
    /\ InitRun

StoreFrame ==
    UNCHANGED <<retry, data, batchSize, checkpointInterval, pc, resume, continueOnError,
                transformedData, startIndex, i, attempt, results, arg, runNo, waits,
                faults, runFaults, saved, validatedRun, stagedRun, committedRun,
                committedPrev, prevType, prevEnd, tally, handled>>

(* saveCheckpoint up to the start of fs.writeFile (lines 25-37): the file  *)
(* of the name is created, or truncated when it exists. The n-th save is   *)
(* of progress n.                                                          *)
StoreSaveBegin ==
    /\ store # None
    /\ store.writing = None
    /\ store.saves < MaxSaves
    /\ \E t \in supportedTypes :
         LET name == generateCheckpointFilename(t, clock)
         IN /\ files' = WriteFile(files, name, Partial, clock)
            /\ store' = [store EXCEPT
                           !.writing = [name |-> name,
                                        content |-> Checkpoint(t, data, store.saves + 1, clock)],
                           !.pruned = None,
                           !.saves = @ + 1]
            /\ type' = t
    /\ event' = "saveBegun"
    /\ UNCHANGED <<clock, loaded>>
    /\ StoreFrame

(* fs.writeFile ends (lines 37-48): the file has its content, unless it    *)
(* was unlinked meanwhile; or fs.writeFile throws and the file stays as it *)
(* is.                                                                     *)
StoreSaveEnd ==
    /\ store # None
    /\ store.writing # None
    /\ LET w == store.writing
       IN /\ type' = w.name[1]
          /\ \/ /\ files' = IF \E f \in files : f.name = w.name
                            THEN WriteFile(files, w.name, w.content, clock)
                            ELSE files
                /\ store' = [store EXCEPT !.writing = None, !.pruned = None,
                                          !.latest[w.name[1]] = w.content]
                /\ event' = "saved"
             \/ /\ event' = "saveFailed"
                /\ store' = [store EXCEPT !.writing = None, !.pruned = None]
                /\ UNCHANGED files
    /\ UNCHANGED <<clock, loaded>>
    /\ StoreFrame

(* loadLatestCheckpoint(type) (lines 55-74); JSON.parse throws on a file   *)
(* that is not written in full.                                            *)
StoreLoad ==
    /\ store # None
    /\ store.calls < MaxCalls
    /\ \E t \in supportedTypes :
         /\ type' = t
         /\ IF CheckpointFiles(files, t) = {}
            THEN /\ loaded' = None
                 /\ event' = "loaded"
                 /\ store' = [store EXCEPT !.read = None, !.calls = @ + 1]
            ELSE LET content == LatestFile(files, t).content
                 IN /\ store' = [store EXCEPT !.read = content, !.calls = @ + 1]
                    /\ IF content = Partial
                       THEN loaded' = None /\ event' = "loadFailed"
                       ELSE loaded' = content /\ event' = "loaded"
    /\ UNCHANGED <<files, clock>>
    /\ StoreFrame

(* The strings handed to cleanOldCheckpoints as maxAge: '1d', the default  *)
(* '7d', and '7', which parseMaxAge does not match.                        *)
MaxAges ==
    {[value |-> 1, unit |-> "d"], [value |-> DefaultMaxAgeDays, unit |-> "d"],
     [value |-> DefaultMaxAgeDays, unit |-> ""]}

(* cleanOldCheckpoints(type, maxAge) (lines 76-96): every error is caught, *)
(* the one thrown by parseMaxAge before the loop included, so any part of  *)
(* the old files may be left behind and the call always returns.           *)
StoreClean ==
    /\ store # None
    /\ store.calls < MaxCalls
    /\ \E t \in supportedTypes, maxAge \in MaxAges :
         LET days == IF parseMaxAge(maxAge).ok THEN maxAge.value ELSE -1
             parsed == parseMaxAge(maxAge)
             old == IF parsed.ok THEN OldCheckpoints(files, t, clock, parsed.ms) ELSE {}
         IN /\ type' = t
            /\ \/ /\ parsed.ok
                  /\ files' = files \ old
                  /\ event' = "cleaned"
                  /\ store' = [store EXCEPT
                                 !.pruned = Pruning(store.pruned, t, days, clock, TRUE, old),
                                 !.calls = @ + 1]
               \/ \E gone \in SUBSET old :
                     /\ files' = files \ gone
                     /\ event' = "cleanFailed"
                     /\ store' = [store EXCEPT
                                    !.pruned = [Pruning(store.pruned, t, days, clock, FALSE, gone)
                                                  EXCEPT !.malformed = ~parsed.ok],
                                    !.calls = @ + 1]
    /\ UNCHANGED <<clock, loaded>>
    /\ StoreFrame

(* The clock advances by a millisecond or by the default retention. *)
StoreTick ==
    /\ store # None
    /\ store.ticks < MaxTicks
    /\ \E dt \in {1, parseMaxAgeDays(DefaultMaxAgeDays)} : clock' = clock + dt
    /\ store' = [store EXCEPT !.ticks = @ + 1]
    /\ UNCHANGED <<files, type, event, loaded>>
    /\ StoreFrame

NextStore ==
    \/ StoreSaveBegin
    \/ StoreSaveEnd
    \/ StoreLoad
    \/ StoreClean
    \/ StoreTick

SpecStore == InitStore /\ [][NextStore]_vars

----------------------------------------------------------------------------
(* The command `import <type> <input>` of the command line (part_001,      *)
(* lines 84-146), which runs ImportManager.import of that file (lines      *)
(* 32-75) and through it CategoryImporter.import (docs/api.md, lines       *)
(* 604-651) or ListingImporter.import (part_000, lines 108-156).  The two  *)
(* importers have the same loop.  arg holds the options of the command     *)
(* that none of them reads elsewhere.                                      *)

(* sanityClient.createTransaction() (part_003, lines 72-74) is an async    *)
(* method: the value of a call is a promise of the transaction, not the    *)
(* transaction.                                                            *)
createTransaction == [promise |-> TRUE]

(* The importers: const transaction = sanityClient.createTransaction(),    *)
(* with no await.                                                          *)
ImporterTransaction == createTransaction

(* validatedBatch.forEach(doc => transaction.create(doc)) and await        *)
(* transaction.commit(): a promise has neither method, so the first of     *)
(* these calls is a TypeError; on a transaction the documents are staged   *)
(* and the sink accepts or rejects the commit.                             *)
StageAndCommit(transaction, docs, accepts) ==
    IF transaction.promise
    THEN [ok |-> FALSE, error |-> "TypeError", staged |-> <<>>, committed |-> <<>>]
    ELSE IF accepts
    THEN [ok |-> TRUE, error |-> "none", staged |-> docs, committed |-> docs]
    ELSE [ok |-> FALSE, error |-> "commit", staged |-> docs, committed |-> <<>>]

(* The loop head of the importers: the next batch, or return results, the  *)
(* summary of the command and its end with exit code 0.                    *)
ImporterLoopHead(k, d) == IF k < Len(d) THEN "importing" ELSE "exit0"

(* A variant of ImporterAfterFailure that throws the error of the batch,   *)
(* which ends the command in its catch block with exit code 1.             *)
ImporterAfterFailureThrows(k, size, d) == [pc |-> "exit1", i |-> k]

(* The catch block of the importers' loop body only counts and logs, so    *)
(* the loop steps to the next batch.                                       *)
ImporterAfterFailure(k, size, d) == [pc |-> ImporterLoopHead(k + size, d), i |-> k + size]

(* Nothing has run yet and the checkpoint directory is empty: an earlier   *)
(* import of categories has saved a checkpoint of the input after some     *)
(* records.                                                                *)
CliSavedBefore ==
    /\ pc = "idle"
    /\ runNo = 0
    /\ files = {}
    /\ \E k \in 1..Len(data) :
         files' = WriteFile(files, generateCheckpointFilename("category", clock),
                            Checkpoint("category", data, k, clock), clock)
    /\ clock' = clock + 1
    /\ event' = "saved"
    /\ UNCHANGED <<store, retry, data, batchSize, checkpointInterval, pc, type, resume,
                   continueOnError, transformedData, startIndex, i, attempt, results,
                   loaded, arg, runNo, waits, faults, runFaults, saved, validatedRun,
                   stagedRun, committedRun, committedPrev, prevType, prevEnd, tally,
                   handled>>

(* The action of the command up to the loop of the importer, or to the     *)
(* loop of the dry run: the options are parsed, and with --backup the      *)
(* backup is made and the input is transformed, either of which may throw  *)
(* into the catch block of the command (lines 141-145).                    *)
CliCommand ==
    /\ pc = "idle"
    /\ runNo = 0
    /\ arg # None
    /\ runNo' = runNo + 1
    /\ \E t \in supportedTypes, r \in BOOLEAN, c \in BOOLEAN :
         /\ type' = t
         /\ resume' = r
         /\ continueOnError' = c
    /\ \/ /\ transformedData' = data
          /\ pc' = IF arg.dryRun
                   THEN (IF data = <<>> THEN "exit0" ELSE "dryRun")
                   ELSE ImporterLoopHead(0, data)
          /\ event' = "started"
          /\ NoFault
       \/ /\ \E kind \in {"transform"} \cup (IF arg.backup /\ ~arg.dryRun THEN {"backup"} ELSE {}) :
               Fault(kind)
          /\ transformedData' = <<>>
          /\ pc' = "exit1"
          /\ event' = "startFailed"
    /\ i' = 0
    /\ results' = [success |-> 0, failed |-> 0, errors |-> <<>>]
    /\ tally' = NoTally
    /\ UNCHANGED <<store, retry, data, batchSize, checkpointInterval, files, clock, startIndex,
                   attempt, loaded, arg, waits, saved, validatedRun, stagedRun,
                   committedRun, committedPrev, prevType, prevEnd, handled>>

(* --dry-run (lines 109-122): the records are validated one after the      *)
(* other, and the first validation that throws ends the command with exit  *)
(* code 1.                                                                 *)
CliDryRun ==
    /\ pc = "dryRun"
    /\ validatedRun' = validatedRun \cup {transformedData[i + 1]}
    /\ \/ /\ NoFault
          /\ i' = i + 1
          /\ pc' = IF i + 1 < Len(transformedData) THEN "dryRun" ELSE "exit0"
          /\ event' = "validated"
       \/ /\ Fault("validation")
          /\ i' = i
          /\ pc' = "exit1"
          /\ event' = "validationFailed"
    /\ UNCHANGED <<store, retry, data, batchSize, checkpointInterval, files, clock, type, resume,
                   continueOnError, transformedData, startIndex, attempt, results, loaded,
                   arg, runNo, waits, saved, stagedRun, committedRun, committedPrev,
                   prevType, prevEnd, tally, handled>>

(* One turn of the loop of CategoryImporter.import / ListingImporter.import *)
(* (part_000, lines 119-152): the batch is validated, the transaction is   *)
(* taken from the client, the documents are staged and committed; any      *)
(* error is counted in the catch block.                                    *)
ImporterBatch ==
    /\ pc = "importing"
    /\ validatedRun' = validatedRun \cup Range(ThisBatch)
    /\ \E bad \in BadChoices(ThisBatch), accepts \in BOOLEAN :
         LET validatedBatch == PromiseAll(ThisBatch, bad)
             done == StageAndCommit(ImporterTransaction, validatedBatch.docs, accepts)
             kind == IF ~validatedBatch.ok THEN "validation" ELSE done.error
             after == ImporterAfterFailure(i, batchSize, transformedData)
         IN /\ IF bad = {} THEN NoFault ELSE Fault("validation")
            /\ tally' = [NoTally EXCEPT !.start = i,
                                        !.batches = tally.batches + 1,
                                        !.validations = 1,
                                        !.invalid = bad # {},
                                        !.validated = validatedBatch.docs,
                                        !.attempts = IF validatedBatch.ok THEN 1 ELSE 0,
                                        !.commits = IF kind = "none" THEN 1 ELSE 0,
                                        !.staged = IF validatedBatch.ok THEN done.staged ELSE <<>>]
            /\ IF kind = "none"
               THEN /\ stagedRun' = stagedRun \cup Range(done.staged)
                    /\ committedRun' = committedRun \cup Range(done.committed)
                    /\ results' = [results EXCEPT !.success = @ + Len(ThisBatch)]
                    /\ event' = "committed"
                    /\ pc' = ImporterLoopHead(i + batchSize, transformedData)
                    /\ i' = i + batchSize
               ELSE /\ stagedRun' = stagedRun \cup
                                    (IF validatedBatch.ok THEN Range(done.staged) ELSE {})
                    /\ UNCHANGED committedRun
                    /\ results' = [results EXCEPT
                                     !.failed = @ + Len(ThisBatch),
                                     !.errors = Append(@, [batch |-> BatchIndex(i, batchSize),
                                                           error |-> kind])]
                    /\ event' = IF kind = "validation" THEN "validationFailed"
                                ELSE "commitFailed"
                    /\ pc' = after.pc
                    /\ i' = after.i
    /\ UNCHANGED <<store, retry, data, batchSize, checkpointInterval, files, clock, type, resume,
                   continueOnError, transformedData, startIndex, attempt, loaded, arg,
                   runNo, waits, saved, committedPrev, prevType, prevEnd, handled>>

(* The options --backup and --dry-run of the command; the input is any     *)
(* short record sequence, imported with any small batch size.              *)
InitCli ==
    /\ \E n \in 0..MaxN : data = [k \in 1..n |-> k - 1]
    /\ batchSize \in 1..MaxBatch
    /\ checkpointInterval = defaultCheckpointInterval
    /\ arg \in [backup : BOOLEAN, dryRun : BOOLEAN]
    /\ retry = None
    /\ store = None
    /\ InitRun

NextCli ==
    \/ CliSavedBefore
    \/ CliCommand
    \/ CliDryRun
    \/ ImporterBatch

SpecCli == InitCli /\ [][NextCli]_vars

----------------------------------------------------------------------------
(* Properties *)

Resumed == loaded # None

Fresh == pc # "idle" /\ pc # "failed" /\ loaded = None

(* 0-based index at which the batch of an error entry starts. *)
ErrorStart(e) == e.batch.whole * batchSize + e.batch.rem

(* C1: a run with options.resume that follows a run of the same type which *)
(* committed records and then stopped (aborted or died) commits none of    *)
(* the records that run committed.                                         *)
C1_NoRecommitOnResume ==
    (/\ runNo >= 2
     /\ resume
     /\ type = prevType
     /\ prevEnd \in {"aborted", "died"}
     /\ committedPrev # {})
    => committedRun \cap committedPrev = {}

(* C2: a run resumed from a checkpoint with processedCount K, totalCount N *)
(* and N - K remaining records ends with success + failed = N - K, having  *)
(* validated exactly the remaining records.                                *)
C2_ResumedProcessesRemaining ==
    (/\ pc = "done"
     /\ Resumed
     /\ Len(loaded.remainingData) = loaded.totalCount - loaded.processedCount)
    => /\ results.success + results.failed = loaded.totalCount - loaded.processedCount
       /\ validatedRun = Range(loaded.remainingData)

(* C3: in a run resumed from a checkpoint with processedCount K, no record *)
(* with index below K in the original sequence is validated, staged or     *)
(* committed.                                                              *)
C3_NoRecordBelowK ==
    Resumed =>
        \A r \in validatedRun \cup stagedRun \cup committedRun :
            r >= loaded.processedCount

(* A resumed run has validated, staged and committed a batch. *)
C3_Witness ==
    /\ Resumed
    /\ loaded.processedCount > 0
    /\ validatedRun # {}
    /\ stagedRun # {}
    /\ committedRun # {}

(* C4: every checkpoint a run writes has totalCount equal to the length of *)
(* the original sequence and remainingData equal to the suffix of the      *)
(* original sequence from processedCount on.                               *)
C4_CheckpointOfFullSequence ==
    \A k \in 1..Len(saved) :
        /\ saved[k].totalCount = Len(data)
        /\ saved[k].remainingData = SliceFrom(data, saved[k].processedCount)

(* C5: every checkpoint written by saveCheckpoint has                      *)
(* length(remainingData) = totalCount - processedCount and                 *)
(* progress = processedCount.                                              *)
C5_CheckpointShape ==
    \A k \in 1..Len(saved) :
        /\ Len(saved[k].remainingData) = saved[k].totalCount - saved[k].processedCount
        /\ saved[k].progress = saved[k].processedCount

(* C6: a failed save of a checkpoint leaves success, failed and errors as  *)
(* they are and does not end the run.                                      *)
C6_SaveFailureOnlyLogged ==
    [][(pc = "save" /\ event' = "saveFailed")
        => /\ results' = results
           /\ pc' \in {"validate", "clean"}]_vars

(* C7: at the end of a run that was not aborted, success + failed is the   *)
(* number of records the run had to process: N, or N - startIndex when     *)
(* resumed.                                                                *)
C7_CountsAddUp ==
    pc = "done" =>
        results.success + results.failed =
            (IF Resumed THEN Len(data) - startIndex ELSE Len(data))

(* C8: a fresh run in which every validation and every commit succeeds     *)
(* returns success = N, failed = 0 and no errors.                          *)
C8_FreshSuccessfulRun ==
    (pc = "done" /\ Fresh /\ runFaults \cap {"validation", "commit"} = {})
    => /\ results.success = Len(data)
       /\ results.failed = 0
       /\ results.errors = <<>>

(* C9: a fresh, fully successful run writes floor(N / checkpointInterval)  *)
(* checkpoints and lists as many identifiers in result.checkpoints.        *)
C9_CheckpointCount ==
    (pc = "done" /\ Fresh /\ runFaults = {})
    => /\ Len(saved) = Len(data) \div checkpointInterval
       /\ Len(results.checkpoints) = Len(data) \div checkpointInterval

(* C10: in a fresh run with continueOnError, each failed batch after which *)
(* the processed count is a positive multiple of the checkpoint interval   *)
(* has a checkpoint with that processed count, recorded in the result.     *)
C10_CheckpointAfterFailedBatch ==
    (pc = "done" /\ Fresh /\ continueOnError)
    => \A e \in Range(results.errors) :
          LET processed == ErrorStart(e) + Len(e.items)
          IN (/\ e.error \in {"validation", "retryExhausted"}
              /\ processed > 0
              /\ processed % checkpointInterval = 0)
             => /\ \E k \in 1..Len(saved) : saved[k].processedCount = processed
                /\ Len(results.checkpoints) = Len(saved)

(* C11: whenever a checkpoint with processedCount P exists, every record   *)
(* of the original sequence with index below P has been committed or       *)
(* recorded as failed by a run of the checkpoint's type.                   *)
C11_NothingSkippedBeforeCheckpoint ==
    \A f \in files :
        \A r \in 0..(f.content.processedCount - 1) :
            r \in handled[f.content.type]

RetryOver == retry # None /\ pc \in {"returned", "threw"}

(* C12: retryOperation with an operation that fails exactly k times,       *)
(* k < maxRetries, and then succeeds returns the value of the operation    *)
(* after exactly k + 1 invocations; with maxRetries = 1 the operation is   *)
(* invoked once and there is no sleep.                                     *)
C12_RetryUntilSuccess ==
    /\ (RetryOver /\ ~retry.always /\ retry.fails < retry.max)
       => /\ pc = "returned"
          /\ retry.outcome = [value |-> "value"]
          /\ retry.calls = retry.fails + 1
    /\ (retry # None /\ retry.max = 1)
       => retry.calls <= 1 /\ retry.sleeps = <<>>

(* Two failures, then the value, out of three attempts. *)
C12_Witness ==
    /\ retry # None
    /\ pc = "returned"
    /\ retry.fails = 2
    /\ retry.calls = 3

(* C13: retryOperation with an operation that always fails invokes it      *)
(* exactly maxRetries times and then throws an error with the message of   *)
(* the last error and the number of attempts; it returns no value.         *)
C13_RetryExhausted ==
    (RetryOver /\ (retry.always \/ retry.fails >= retry.max))
    => /\ pc = "threw"
       /\ retry.calls = retry.max
       /\ retry.outcome = [attempts |-> retry.max, message |-> retry.max]

(* The default of three attempts, all failed. *)
C13_Witness ==
    /\ retry # None
    /\ pc = "threw"
    /\ retry.always
    /\ retry.max = maxRetries
    /\ retry.calls = maxRetries

TallyBatch == Batch(transformedData, tally.start, batchSize)

(* C15: a batch is validated once; a validated batch has between 1 and     *)
(* maxRetries commit attempts, none after the first that succeeds, each    *)
(* with a transaction of its own holding exactly the validated documents   *)
(* of the batch; a successful batch is committed once.                     *)
C15_OnlyCommitRetried ==
    /\ tally.validations <= 1
    /\ tally.attempts <= maxRetries
    /\ tally.commits <= 1
    /\ tally.attempts >= 1 => tally.validations = 1 /\ tally.staged = TallyBatch
    /\ pc = "commit" => /\ tally.start = i
                        /\ tally.validations = 1
                        /\ tally.commits = 0
                        /\ tally.attempts = attempt - 1
                        /\ attempt \in 1..maxRetries
    /\ event = "committed" => tally.commits = 1 /\ tally.attempts \in 1..maxRetries
    /\ event = "retryExhausted" => tally.commits = 0 /\ tally.attempts = maxRetries
    /\ tally.commits = 1 => Range(TallyBatch) \subseteq committedRun

(* A batch of two committed at the second attempt. *)
C15_Witness ==
    /\ event = "committed"
    /\ tally.attempts = 2
    /\ Len(tally.staged) = 2

(* C16: when the validation of a record of a batch fails, no document of   *)
(* the batch is staged or committed, no commit is attempted, and the batch *)
(* is the last entry of errors, its whole length counted in failed.        *)
C16_InvalidBatchNotCommitted ==
    tally.invalid =>
        /\ Range(TallyBatch) \cap (stagedRun \cup committedRun) = {}
        /\ tally.attempts = 0
        /\ tally.staged = <<>>
        /\ results.errors # <<>>
        /\ LET e == results.errors[Len(results.errors)]
           IN /\ e.error = "validation"
              /\ e.items = TallyBatch
              /\ results.failed =
                   Cardinality(UNION {Range(results.errors[k].items) :
                                         k \in 1..Len(results.errors)})

(* A batch of two records, one of which failed validation, after a batch   *)
(* that was committed.                                                     *)
C16_Witness ==
    /\ tally.invalid
    /\ event = "validationFailed"
    /\ Len(TallyBatch) = 2
    /\ results.failed = 2
    /\ committedRun # {}

(* C17: without continueOnError the run is over as soon as a batch has     *)
(* failed: there is one error, nothing past the failed batch was           *)
(* validated, staged or committed, and no checkpoint beyond the failed     *)
(* batch was written.                                                      *)
C17_AbortAtFirstFailure ==
    (~continueOnError /\ results.errors # <<>>)
    => /\ pc = "aborted"
       /\ Len(results.errors) = 1
       /\ LET s == ErrorStart(results.errors[1])
          IN /\ s = i
             /\ validatedRun \cup stagedRun \cup committedRun
                  \subseteq Range(Slice(transformedData, startIndex, s + batchSize))
             /\ \A k \in 1..Len(saved) : saved[k].processedCount <= s

(* A run aborted by an exhausted retry with a batch still to come. *)
C17_Witness ==
    /\ pc = "aborted"
    /\ event = "retryExhausted"
    /\ i + batchSize < Len(transformedData)

(* C18: with continueOnError a failed batch does not end the run, and a    *)
(* run that returns has validated every batch; the long sequence (120      *)
(* records, batch size 50, interval 50) with the validation of batch 2 as  *)
(* the only failure gives success = 100, failed = 20, one error with batch *)
(* index 2 and a checkpoint with processedCount 100.                       *)
C18_ContinueOnError ==
    /\ continueOnError => pc # "aborted"
    /\ (continueOnError /\ results.errors # <<>>) => (Running \/ pc \in {"done", "died"})
    /\ (continueOnError /\ pc = "done")
       => validatedRun = Range(SliceFrom(transformedData, startIndex))
    /\ (/\ continueOnError
        /\ pc = "done"
        /\ Fresh
        /\ Len(data) = LongN
        /\ batchSize = LongBatch
        /\ checkpointInterval = defaultCheckpointInterval
        /\ runNo = 1
        /\ faults = 1
        /\ runFaults = {"validation"}
        /\ 2 * LongBatch \notin committedRun)
       => /\ results.success = 2 * LongBatch
          /\ results.failed = LongN - 2 * LongBatch
          /\ Len(results.errors) = 1
          /\ results.errors[1].batch = [whole |-> 2, rem |-> 0]
          /\ \E f \in files : f.content.processedCount = 2 * LongBatch
          /\ Len(results.checkpoints) >= 1

(* The long sequence imported with the validation of its last batch        *)
(* failing.                                                                *)
C18_Witness ==
    /\ continueOnError
    /\ pc = "done"
    /\ Len(data) = LongN
    /\ batchSize = LongBatch
    /\ runNo = 1
    /\ faults = 1
    /\ runFaults = {"validation"}
    /\ 2 * LongBatch \notin committedRun
    /\ results.failed = LongN - 2 * LongBatch

(* C19: every entry of errors is for a batch that failed validation or     *)
(* exhausted its commit retries, the entries are in batch order, and       *)
(* failed is the number of records of those batches.                       *)
C19_ErrorsAreFailedBatches ==
    /\ \A k \in 1..Len(results.errors) :
          /\ results.errors[k].error \in {"validation", "retryExhausted"}
          /\ Range(results.errors[k].items) \cap committedRun = {}
          /\ \A j \in 1..(k - 1) :
                ErrorStart(results.errors[j]) < ErrorStart(results.errors[k])
    /\ results.failed =
          Cardinality(UNION {Range(results.errors[k].items) : k \in 1..Len(results.errors)})

(* The records of the batches before the one at index i. *)
BatchesBefore == Range(Slice(transformedData, startIndex, i))

(* C20: the batches of a run are consecutive slices taken in order, one at *)
(* a time: what has been validated is the slice from startIndex up to the  *)
(* batch in hand, and every batch before the one in hand has been          *)
(* committed or entered in errors.                                         *)
C20_OneBatchAtATime ==
    /\ (i - startIndex) % batchSize = 0
    /\ validatedRun \in {BatchesBefore, BatchesBefore \cup Range(ThisBatch)}
    /\ pc = "validate" => validatedRun = BatchesBefore
    /\ pc \in {"commit", "save"} => validatedRun = BatchesBefore \cup Range(ThisBatch)
    /\ committedRun \subseteq stagedRun
    /\ stagedRun \subseteq validatedRun
    /\ BatchesBefore \subseteq
          committedRun \cup UNION {Range(results.errors[k].items) : k \in 1..Len(results.errors)}
    /\ Cardinality(Range(ThisBatch)) <= batchSize

(* The second batch in hand after the first was committed. *)
C20_Witness ==
    /\ pc = "commit"
    /\ attempt = 2
    /\ i = startIndex + batchSize
    /\ results.success = batchSize
    /\ batchSize = 2

(* C22: when loadLatestCheckpoint throws in a run with options.resume, the *)
(* run has failed with nothing validated, staged, committed or saved, and  *)
(* it processes no record of the full sequence.                            *)
C22_LoadFailureIsFatal ==
    runFaults = {"load"}
    => /\ pc = "failed"
       /\ resume
       /\ transformedData = <<>>
       /\ validatedRun = {}
       /\ stagedRun = {}
       /\ committedRun = {}
       /\ saved = <<>>
       /\ results = EmptyResults

(* The checkpoint of a run that committed records cannot be loaded. *)
C22_Witness ==
    /\ runFaults = {"load"}
    /\ pc = "failed"
    /\ CheckpointFiles(files, type) # {}
    /\ committedPrev # {}

(* C23: a run that starts without options.resume, or with it when there is *)
(* no checkpoint of its type, reads no checkpoint, takes the full sequence *)
(* and starts at index 0.                                                  *)
C23_FullSequenceWithoutCheckpoint ==
    [][(/\ runNo' = runNo + 1
        /\ pc' # "failed"
        /\ (~resume' \/ CheckpointFiles(files, type') = {}))
       => /\ loaded' = None
          /\ transformedData' = data
          /\ startIndex' = 0
          /\ i' = 0]_vars

(* A run without options.resume has committed a batch although a          *)
(* checkpoint of its type exists, and a run with it started from index 0   *)
(* because the only checkpoints are of the other type.                     *)
C23_Witness ==
    \/ /\ ~resume
       /\ runNo = 2
       /\ CheckpointFiles(files, type) # {}
       /\ loaded = None
       /\ 0 \in committedRun
    \/ /\ resume
       /\ runNo = 2
       /\ type = "listing"
       /\ files # {}
       /\ loaded = None
       /\ event = "started"
       /\ transformedData = data

(* A step of the checkpoint store that is a call of loadLatestCheckpoint   *)
(* or cleanOldCheckpoints.                                                 *)
StoreCalled == store # None /\ store'.calls = store.calls + 1

(* C21: loadLatestCheckpoint(type) returns null when there is no file of   *)
(* the type, and else the content of the file of the type with the latest  *)
(* timestamp; while the file of the last checkpoint saved of the type      *)
(* exists, that checkpoint is what it returns.                             *)
C21_LoadsLatest ==
    [][(StoreCalled /\ event' = "loaded")
       => LET fs == {f \in files : f.name[1] = type'}
          IN /\ fs = {} => loaded' = None
             /\ fs # {} => \E f \in fs : /\ f.content = loaded'
                                        /\ \A g \in fs : g.name[2] <= f.name[2]
             /\ (\E f \in fs : f.content = store.latest[type'])
                => loaded' = store.latest[type']]_vars

(* The second of two checkpoints of a type, both stored, was loaded. *)
C21_Witness ==
    /\ store # None
    /\ event = "loaded"
    /\ loaded # None
    /\ loaded = store.latest[type]
    /\ loaded.progress = 2
    /\ Cardinality({f \in files : f.name[1] = type}) = 2

(* C24: loadLatestCheckpoint never reads a file that saveCheckpoint has    *)
(* not written in full.                                                    *)
C24_NoPartialCheckpointRead ==
    store # None => store.read # Partial

(* C25: a call of saveCheckpoint adds one file and leaves every file that  *)
(* exists as it is.                                                        *)
C25_SaveNeverReplaces ==
    [][(store # None /\ store'.saves = store.saves + 1)
       => /\ files \subseteq files'
          /\ Cardinality(files') = Cardinality(files) + 1]_vars

(* C26: a step of saveCheckpoint, loadLatestCheckpoint or                  *)
(* cleanOldCheckpoints for a type leaves the files of the other type as    *)
(* they are, and a checkpoint loaded for a type is of that type.           *)
C26_TypesApart ==
    [][store # None
       => /\ {f \in files' : f.name[1] # type'} = {f \in files : f.name[1] # type'}
          /\ (StoreCalled /\ event' = "loaded" /\ loaded' # None) => loaded'.type = type']_vars

(* A checkpoint of one type was loaded, and an old one of that type        *)
(* unlinked, while the other type has a file.                              *)
C26_Witness ==
    /\ store # None
    /\ \/ event = "loaded" /\ loaded # None
       \/ event = "cleaned" /\ store.pruned # None /\ store.pruned.deleted # {}
    /\ \E f \in files : f.name[1] # type

C30_OnlyOldOfTypePruned ==
    (store # None /\ store.pruned # None)
    => \A f \in store.pruned.deleted :
          /\ f.name[1] = store.pruned.type
          /\ f.content = Partial \/ f.content.type = store.pruned.type
          /\ store.pruned.at - f.mtime > parseMaxAgeDays(store.pruned.days)

(* A call that met no error left a file of its type that is exactly as old *)
(* as maxAge.                                                              *)
C30_Witness ==
    /\ store # None
    /\ store.pruned # None
    /\ store.pruned.ok
    /\ event = "cleaned"
    /\ \E f \in files :
          /\ f.name[1] = store.pruned.type
          /\ f.content # Partial
          /\ store.pruned.at - f.mtime = parseMaxAgeDays(store.pruned.days)

(* C27: when cleanOldCheckpoints meets an error at the end of a run, the   *)
(* run still returns, with results as they were.                           *)
C27_PruneErrorsSwallowed ==
    [][(pc = "clean" /\ event' = "cleanFailed")
       => /\ pc' = "done"
          /\ results' = results]_vars

(* A run that committed records returned after a failed pruning. *)
C27_Witness ==
    /\ pc = "done"
    /\ event = "cleanFailed"
    /\ results.success > 0
    /\ runFaults = {"clean"}

(* C28: a run that has ended, with all batches done or aborted on a failed *)
(* batch, has ended with the pruning of the checkpoints of its type.       *)
C28_PrunedAtEveryEnd ==
    pc \in {"done", "aborted"} => event \in {"cleaned", "cleanFailed"}

(* C31: a call of cleanOldCheckpoints with a malformed maxAge throws to    *)
(* its caller and unlinks nothing.                                         *)
C31_MalformedMaxAgeIsFatal ==
    (store # None /\ store.pruned # None /\ store.pruned.malformed)
    => /\ store.pruned.threw
       /\ store.pruned.deleted = {}

(* A run of the import command, not a dry run, has started. *)
CliImporting == arg # None /\ runNo = 1 /\ ~arg.dryRun

(* C32: the import command run with --resume while a checkpoint of the     *)
(* type exists starts from that checkpoint: no record that the checkpoint  *)
(* counts as processed is validated, staged or committed by the command.   *)
C32_CliResumesFromCheckpoint ==
    (CliImporting /\ resume /\ CheckpointFiles(files, type) # {})
    => \A r \in validatedRun \cup stagedRun \cup committedRun :
          r >= LatestCheckpoint(files, type).processedCount

(* C33: the import command run without --continue-on-error stops at the    *)
(* first failed batch: once a batch has failed the command has ended with  *)
(* an error, so there is at most one failed batch.                         *)
C33_CliStopsAtFirstFailure ==
    (CliImporting /\ ~continueOnError /\ results.errors # <<>>)
    => /\ pc = "exit1"
       /\ Len(results.errors) = 1

(* C34: a batch of the importers whose records all pass validation, and    *)
(* whose commit the sink does not reject, is counted in success and adds   *)
(* no error entry.                                                         *)
C34_ValidBatchCounted ==
    [][(pc = "importing" /\ ~tally'.invalid /\ "commit" \notin runFaults')
       => /\ results'.success = results.success + Len(ThisBatch)
          /\ results'.errors = results.errors]_vars

(* The records of the batches that the error entries name. *)
FailedRecords ==
    UNION {Range(Batch(data, e.batch.whole * batchSize, batchSize)) :
             e \in Range(results.errors)}

(* C35: the importers never throw the error of a batch: the command does   *)
(* not end with an error once the loop has started, the batches up to i    *)
(* were each validated and counted once, in order, every error entry has   *)
(* an integer batch index, the entries name different batches, in order,   *)
(* and failed counts the records of these batches; at the end success +    *)
(* failed is the number of records.                                        *)
C35_ImporterSwallowsBatchFailures ==
    (CliImporting /\ event # "startFailed")
    => /\ pc \in {"importing", "exit0"}
       /\ validatedRun = {r \in Range(data) : r < i}
       /\ results.success + results.failed = Cardinality(validatedRun)
       /\ tally.validations <= 1 /\ tally.attempts <= 1
       /\ \A k \in 1..Len(results.errors) :
             /\ results.errors[k].batch.rem = 0
             /\ k > 1 => results.errors[k - 1].batch.whole < results.errors[k].batch.whole
       /\ results.failed = Cardinality(FailedRecords)
       /\ pc = "exit0" => results.success + results.failed = Len(data)

(* The command has ended with exit code 0 after three records in batches   *)
(* of two, both of which failed, one of them in validation.                *)
C35_Witness ==
    /\ CliImporting
    /\ pc = "exit0"
    /\ Len(data) = 3
    /\ batchSize = 2
    /\ Len(results.errors) = 2
    /\ results.failed = 3
    /\ \E k \in 1..2 : results.errors[k].error = "validation"

Ceil(a, b) == (a + b - 1) \div b

(* The records that the loop of import() has before it: those from         *)
(* startIndex on.                                                          *)
RecordsAhead == Max(Len(transformedData) - startIndex, 0)

(* C36: a run of import() makes at most ceil((N - startIndex) / batchSize) *)
(* turns of its loop, and no more turns than it has records when the batch *)
(* size gives no such number, and at most maxRetries commit attempts for a *)
(* batch; so it ends.                                                      *)
C36_ImportTerminates ==
    (store = None /\ retry = None /\ arg = None)
    => /\ tally.batches <= (IF batchSize > 0 THEN Ceil(RecordsAhead, batchSize)
                            ELSE RecordsAhead)
       /\ attempt <= maxRetries

(* C37: the checkpoints that a run of import() has written have           *)
(* processedCount values that grow strictly in the order of writing and    *)
(* are at most the length of the sequence, and once the run has ended the  *)
(* latest checkpoint of its type is the last one it wrote.                 *)
C37_CheckpointsIncrease ==
    (store = None /\ retry = None /\ arg = None)
    => /\ \A k \in 1..Len(saved) :
             /\ saved[k].processedCount <= saved[k].totalCount
             /\ saved[k].processedCount <= Len(data)
             /\ k > 1 => saved[k - 1].processedCount < saved[k].processedCount
       /\ (Ended /\ saved # <<>>) => LatestCheckpoint(files, type) = saved[Len(saved)]

(* A run has returned after writing three checkpoints, and the latest      *)
(* checkpoint of its type is the third.                                    *)
C37_Witness ==
    /\ store = None /\ retry = None /\ arg = None
    /\ pc = "done"
    /\ Len(saved) = 3
    /\ LatestCheckpoint(files, type) = saved[3]
    /\ saved[1].processedCount < saved[3].processedCount

(* C38: a run with options.resume that follows a run of the same type      *)
(* which returned, having gone through the whole sequence and committed    *)
(* every record of it, commits no record.                                  *)
C38_NothingLeftAfterFullRun ==
    (store = None /\ retry = None /\ arg = None
       /\ runNo = 2 /\ resume /\ prevEnd = "done" /\ prevType = type
       /\ committedPrev = Range(data))
    => committedRun = {}

====
